---- MODULE Spec2Model ----
(***************************************************************************)
(* Model of RxPY's Disposable (rx/disposables/disposable.py) and           *)
(* Notification (rx/notification.py).                                      *)
(*                                                                         *)
(* SpecDisposable: one Disposable, released by one or more threads, each   *)
(* thread making a bounded number of dispose() calls.  dispose() is split  *)
(* at the points where another thread may run: the read of is_disposed     *)
(* (line 12), the call of the action (line 13) and the write of            *)
(* is_disposed (line 14).                                                  *)
(*                                                                         *)
(* SpecNotification: one Notification, dispatched with accept(), compared  *)
(* with equals() and read.                                                 *)
(*                                                                         *)
(* SpecReplay: one Notification replayed through to_observable().          *)
(*                                                                         *)
(* SpecNotifier: the observer of observable_from_notifier() and the replay *)
(* of what its handler collected.                                          *)
(***************************************************************************)
EXTENDS Integers, Sequences, FiniteSets, TLC

\* ------------------------------------------------------------------ bounds
MaxThreads == 2      \* threads that may call dispose()
MaxCalls == 2        \* dispose() calls one thread makes, one after another
MaxDepth == 2        \* nesting of dispose() inside the action
NumPayloads == 2     \* distinct payload values
NumObservers == 2    \* distinct observers
MaxSubs == 2         \* subscriptions to the replay observable
MaxEvents == 3       \* live events fed to the observer of a notifier

Threads == 1..MaxThreads

\* What the wrapped action does when it is invoked:
\*   "ok"      returns normally
\*   "fail"    returns normally or raises, invocation by invocation
\*   "reenter" may call dispose() on its own Disposable before returning
ActionKinds == {"ok", "fail", "reenter"}
\* and "noop", the action of Disposable.empty(): it does nothing and returns

VARIABLES
    \* ---- Disposable
    is_disposed,     \* Disposable.is_disposed
    action,          \* Disposable.action (its kind)
    callers,         \* number of threads that use the Disposable
    pc,              \* pc[t]: position of thread t's innermost dispose() frame
    depth,           \* depth[t]: dispose() frames on thread t's stack
    history,         \* history[t]: outcomes of t's top-level dispose() calls
    entered,         \* number of times the action body was entered
    completed,       \* number of times the action returned normally
    failed,          \* number of times the action raised
    late,            \* late[t]: t's innermost dispose() frame was entered
                     \* when is_disposed was already true
    \* ---- Notification
    notification,    \* the notification under test
    last,            \* last accept(): its arguments, calls made and result
    observable,      \* result of to_observable(): None, or the observable
    subs,            \* subscriptions: observer, scheduled unit, calls received
    \* ---- observable_from_notifier
    events,          \* live events received by the observer of the notifier
    handled,         \* notifications the handler was called with, in order
    replayed         \* calls a recording observer got from replaying handled

dvars == <<is_disposed, action, callers, pc, depth, history, entered, completed,
           failed, late>>
fvars == <<events, handled, replayed>>
nvars == <<notification, last, observable, subs, fvars>>
vars == <<dvars, nvars>>

\* =================================================================
\* Disposable
\* =================================================================

\* Disposable.__init__: is_disposed starts False, the action is stored.
Disposable_init(a) ==
    /\ is_disposed = FALSE
    /\ action = a

\* Disposable.create(action): cls(action)
create(a) == Disposable_init(a)

\* Disposable.empty(): cls(noop)
empty == Disposable_init("noop")

\* A dispose() frame of thread t returns normally: the top-level call ends,
\* or control goes back to the action body that made the nested call.
ReturnFrom(t) ==
    IF depth[t] = 1
    THEN /\ pc' = [pc EXCEPT ![t] = "idle"]
         /\ depth' = [depth EXCEPT ![t] = 0]
         /\ history' = [history EXCEPT ![t] = Append(@, "returned")]
         /\ late' = [late EXCEPT ![t] = FALSE]
    ELSE /\ pc' = [pc EXCEPT ![t] = "resumed"]
         /\ depth' = [depth EXCEPT ![t] = @ - 1]
         /\ late' = [late EXCEPT ![t] = FALSE]
         /\ UNCHANGED history

\* Thread t calls dispose().
Call(t) ==
    /\ t <= callers
    /\ pc[t] = "idle"
    /\ Len(history[t]) < MaxCalls
    /\ pc' = [pc EXCEPT ![t] = "line12"]
    /\ depth' = [depth EXCEPT ![t] = 1]
    /\ late' = [late EXCEPT ![t] = is_disposed]
    /\ UNCHANGED <<is_disposed, action, callers, history, entered, completed, failed, nvars>>

\* Mutant of Test: the guard of line 12 is dropped, the action is always called.
TestNoGuard(t) ==
    /\ pc[t] = "line12"
    /\ pc' = [pc EXCEPT ![t] = "line13"]
    /\ UNCHANGED <<depth, history, late>>
    /\ UNCHANGED <<is_disposed, action, callers, entered, completed, failed, nvars>>

\* line 12: if not self.is_disposed
Test(t) ==
    /\ pc[t] = "line12"
    /\ IF ~is_disposed
       THEN /\ pc' = [pc EXCEPT ![t] = "line13"]
            /\ UNCHANGED <<depth, history, late>>
       ELSE ReturnFrom(t)
    /\ UNCHANGED <<is_disposed, action, callers, entered, completed, failed, nvars>>

\* Mutant of Invoke: is_disposed is set before the action is called.
InvokeSetsFlag(t) ==
    /\ pc[t] = "line13"
    /\ entered' = entered + 1
    /\ is_disposed' = TRUE
    /\ pc' = [pc EXCEPT ![t] = "action"]
    /\ UNCHANGED <<action, callers, depth, history, completed, failed, late, nvars>>

\* line 13: self.action() -- the action body is entered
Invoke(t) ==
    /\ pc[t] = "line13"
    /\ entered' = entered + 1
    /\ pc' = [pc EXCEPT ![t] = "action"]
    /\ UNCHANGED <<is_disposed, action, callers, depth, history, completed, failed, late, nvars>>

\* the action returns normally to line 13
ActionReturn(t) ==
    /\ pc[t] \in {"action", "resumed"}
    /\ completed' = completed + 1
    /\ pc' = [pc EXCEPT ![t] = "line14"]
    /\ UNCHANGED <<is_disposed, action, callers, depth, history, entered, failed, late, nvars>>

\* Mutant of ActionRaise: the failure handler clears is_disposed and re-raises.
ActionRaiseResets(t) ==
    /\ pc[t] = "action"
    /\ action = "fail"
    /\ failed' = failed + 1
    /\ is_disposed' = FALSE
    /\ pc' = [pc EXCEPT ![t] = "idle"]
    /\ depth' = [depth EXCEPT ![t] = 0]
    /\ late' = [late EXCEPT ![t] = FALSE]
    /\ history' = [history EXCEPT ![t] = Append(@, "raised")]
    /\ UNCHANGED <<action, callers, entered, completed, nvars>>

\* Mutant of ActionRaise: the exception is caught and dropped, dispose() goes
\* on to line 14.
ActionRaiseSwallowed(t) ==
    /\ pc[t] = "action"
    /\ action = "fail"
    /\ failed' = failed + 1
    /\ pc' = [pc EXCEPT ![t] = "line14"]
    /\ UNCHANGED <<is_disposed, action, callers, depth, history, entered, completed,
                   late, nvars>>

\* the action raises: dispose() has no try/finally, so the exception leaves
\* line 13 and reaches the caller of the top-level dispose()
ActionRaise(t) ==
    /\ pc[t] = "action"
    /\ action = "fail"
    /\ failed' = failed + 1
    /\ pc' = [pc EXCEPT ![t] = "idle"]
    /\ depth' = [depth EXCEPT ![t] = 0]
    /\ late' = [late EXCEPT ![t] = FALSE]
    /\ history' = [history EXCEPT ![t] = Append(@, "raised")]
    /\ UNCHANGED <<is_disposed, action, callers, entered, completed, nvars>>

\* the action calls dispose() on its own Disposable
ActionReenter(t) ==
    /\ pc[t] = "action"
    /\ action = "reenter"
    /\ depth[t] < MaxDepth
    /\ pc' = [pc EXCEPT ![t] = "line12"]
    /\ depth' = [depth EXCEPT ![t] = @ + 1]
    /\ late' = [late EXCEPT ![t] = is_disposed]
    /\ UNCHANGED <<is_disposed, action, callers, history, entered, completed, failed, nvars>>

\* Mutant of SetDisposed: dispose() returns without writing is_disposed.
SetDisposedNoWrite(t) ==
    /\ pc[t] = "line14"
    /\ ReturnFrom(t)
    /\ UNCHANGED <<is_disposed, action, callers, entered, completed, failed, nvars>>

\* line 14: self.is_disposed = True, then dispose() returns
SetDisposed(t) ==
    /\ pc[t] = "line14"
    /\ is_disposed' = TRUE
    /\ ReturnFrom(t)
    /\ UNCHANGED <<action, callers, entered, completed, failed, nvars>>

\* SpecDisposable makes no use of the notification
InitNotificationIdle ==
    /\ notification = [kind |-> "C"]
    /\ last = [op |-> "none"]
    /\ observable = [type |-> "None"]
    /\ subs = <<>>
    /\ events = <<>>
    /\ handled = <<>>
    /\ replayed = <<>>

InitDisposable ==
    /\ \/ \E a \in ActionKinds : create(a)
       \/ empty
    /\ callers \in 1..MaxThreads
    /\ pc = [t \in Threads |-> "idle"]
    /\ depth = [t \in Threads |-> 0]
    /\ history = [t \in Threads |-> <<>>]
    /\ entered = 0
    /\ completed = 0
    /\ failed = 0
    /\ late = [t \in Threads |-> FALSE]
    /\ InitNotificationIdle

\* dispose(): one step of one thread's call
NextDisposable ==
    \/ \E t \in Threads : Call(t)
    \/ \E t \in Threads : Test(t)
    \/ \E t \in Threads : Invoke(t)
    \/ \E t \in Threads : ActionReturn(t)
    \/ \E t \in Threads : ActionRaise(t)
    \/ \E t \in Threads : ActionReenter(t)
    \/ \E t \in Threads : SetDisposed(t)

SpecDisposable == InitDisposable /\ [][NextDisposable]_vars

\* -----------------------------------------------------------------
\* Claims about Disposable
\* -----------------------------------------------------------------

\* Thread t is between dispose() calls.
Quiet(t) == pc[t] = "idle"

\* C1: with one caller and an action that just returns, any number of
\* dispose() calls made one after another enters the action exactly once;
\* is_disposed is false before the first call, true once the first call has
\* returned, and true after every later call; no call fails.
C1_SequentialDisposeOnce ==
    (callers = 1 /\ action = "ok") =>
        /\ entered <= 1
        /\ (history[1] = <<>> /\ Quiet(1) => ~is_disposed /\ entered = 0)
        /\ (Len(history[1]) >= 1 => is_disposed /\ entered = 1 /\ completed = 1)
        /\ \A i \in 1..Len(history[1]) : history[1][i] = "returned"

\* C1 witness: two sequential calls have both returned.
C1_Witness ==
    /\ callers = 1
    /\ action = "ok"
    /\ Len(history[1]) >= 2
    /\ Quiet(1)
    /\ entered = 1

\* C2: when two or more threads race in dispose() on one Disposable whose
\* action just returns, the action is entered at most once at any time, and
\* exactly once when every thread is back from its calls.
C2_ConcurrentDisposeOnce ==
    (callers >= 2 /\ action = "ok") =>
        /\ entered <= 1
        /\ ((\A t \in 1..callers : Quiet(t) /\ history[t] # <<>>) => entered = 1)

\* C3: if the action raised during the first dispose() call of the only
\* caller, is_disposed is set after that call and the action is never
\* entered a second time.
C3_FailedDisposeStillDisposed ==
    (callers = 1 /\ Len(history[1]) >= 1 /\ history[1][1] = "raised") =>
        /\ is_disposed
        /\ entered = 1

\* C4: if the action calls dispose() on its own Disposable, the nested call
\* does not enter the action again: the action body is entered at most once,
\* and exactly once when the outer dispose() has returned.
C4_ReentrantDisposeOnce ==
    (callers = 1 /\ action = "reenter") =>
        /\ entered <= 1
        /\ (Len(history[1]) >= 1 => entered = 1 /\ history[1][1] = "returned")


\* =================================================================
\* Notification
\* =================================================================

\* Python values used as payloads: the integer n, and the string that is the
\* decimal text of n
PyInt(n) == [type |-> "int", n |-> n]
PyStr(n) == [type |-> "str", n |-> n]
Payloads ==
    {PyInt(n) : n \in 1..NumPayloads} \cup {PyStr(n) : n \in 1..NumPayloads}
Observers == 1..NumObservers

\* Python values that are passed to accept()
None == [type |-> "None"]
Function(name) == [type |-> "function", name |-> name]
Observer(o) == [type |-> "observer", id |-> o]
\* a bound method of observer o
Method(o, name) == [type |-> "method", observer |-> o, name |-> name]

\* ON.__init__: value, has_value = True, kind = 'N'
ON(value) == [kind |-> "N", value |-> value, has_value |-> TRUE]

\* OE.__init__: exception, kind = 'E' (Notification.__init__ is not called, so
\* the instance gets no has_value attribute)
OE(exception) == [kind |-> "E", exception |-> exception]

\* OC.__init__: kind = 'C' (no has_value attribute either)
OC == [kind |-> "C"]

Notifications ==
    {ON(v) : v \in Payloads} \cup {OE(e) : e \in Payloads} \cup {OC}

\* The outcome of a Python call: the calls that reached a handler or an
\* observer method, in order, and what the call gave back.
TypeError == [raised |-> "TypeError"]
\* the value callee returns for args: each handler's result is its own
Returned(callee, args) == [returned_by |-> callee, args |-> args]
Outcome(calls, result) == [calls |-> calls, result |-> result]

\* Mutant of Apply: a handler that is None is skipped, the call returns None.
ApplySkipNone(f, args) ==
    IF f.type = "None"
    THEN Outcome(<<>>, [type |-> "None"])
    ELSE Outcome(<<[target |-> f, args |-> args]>>, Returned(f, args))

\* f(*args) for a handler f: None is not callable
Apply(f, args) ==
    IF f.type = "None"
    THEN Outcome(<<>>, TypeError)
    ELSE Outcome(<<[target |-> f, args |-> args]>>, Returned(f, args))

\* observer.name(*args)
CallMethod(observer, name, args) ==
    Apply(Method(observer.id, name), args)

\* ON._accept(self, on_next, on_error=None, on_completed=None)
ON_accept(self, args) ==
    IF Len(args) \notin 1..3
    THEN Outcome(<<>>, TypeError)
    ELSE Apply(args[1], <<self.value>>)

\* OE._accept(self, on_next, on_error): two parameters, so a call with any
\* other number of positional arguments is a TypeError before the body runs
OE_accept(self, args) ==
    IF Len(args) # 2
    THEN Outcome(<<>>, TypeError)
    ELSE Apply(args[2], <<self.exception>>)

\* Mutant of OC_accept: the error handler is called instead.
OC_acceptWrongHandler(self, args) ==
    IF Len(args) # 3
    THEN Outcome(<<>>, TypeError)
    ELSE Apply(args[2], <<>>)

\* OC._accept(self, on_next, on_error, on_completed)
OC_accept(self, args) ==
    IF Len(args) # 3
    THEN Outcome(<<>>, TypeError)
    ELSE Apply(args[3], <<>>)

\* self._accept(...): dispatch on the class of self
Notification_accept(self, args) ==
    CASE self.kind = "N" -> ON_accept(self, args)
      [] self.kind = "E" -> OE_accept(self, args)
      [] self.kind = "C" -> OC_accept(self, args)

\* ON._accept_observable
ON_accept_observable(self, observer) ==
    CallMethod(observer, "on_next", <<self.value>>)

\* Mutant of OE_accept_observable: the error is delivered as a value.
OE_accept_observableAsNext(self, observer) ==
    CallMethod(observer, "on_next", <<self.exception>>)

\* OE._accept_observable
OE_accept_observable(self, observer) ==
    CallMethod(observer, "on_error", <<self.exception>>)

\* OC._accept_observable
OC_accept_observable(self, observer) ==
    CallMethod(observer, "on_completed", <<>>)

\* self._accept_observable(observer): dispatch on the class of self
accept_observable(self, observer) ==
    CASE self.kind = "N" -> ON_accept_observable(self, observer)
      [] self.kind = "E" -> OE_accept_observable(self, observer)
      [] self.kind = "C" -> OC_accept_observable(self, observer)

\* Notification.accept(self, on_next, on_error=None, on_completed=None)
accept(self, on_next, on_error, on_completed) ==
    IF on_next.type = "observer"
    THEN accept_observable(self, on_next)
    ELSE Notification_accept(self, <<on_next, on_error, on_completed>>)

\* ---- equals

\* the decimal text of a natural number, as a sequence of characters
RECURSIVE Digits(_)
Digits(n) ==
    LET char == <<"0", "1", "2", "3", "4", "5", "6", "7", "8", "9">>[(n % 10) + 1]
    IN  IF n < 10 THEN <<char>> ELSE Digits(n \div 10) \o <<char>>

\* "%s" % payload: str() of an integer is its decimal text, str() of a
\* string is the string
Format(payload) == Digits(payload.n)

\* ON.__str__: "OnNext(%s)" % self.value
ON_str(self) == <<"OnNext(">> \o Format(self.value) \o <<")">>

\* OE.__str__: "OnError(%s)" % self.exception
OE_str(self) == <<"OnError(">> \o Format(self.exception) \o <<")">>

\* OC.__str__: "OnCompleted()"
OC_str(self) == <<"OnCompleted()">>

\* str(notification): dispatch on the class
Notification_str(self) ==
    CASE self.kind = "N" -> ON_str(self)
      [] self.kind = "E" -> OE_str(self)
      [] self.kind = "C" -> OC_str(self)

\* Notification.equals(self, other), lines 80-81; a notification is truthy
equals(self, other) ==
    LET other_string == IF other = None THEN <<>> ELSE Notification_str(other)
    IN  Notification_str(self) = other_string

\* ---- to_observable

\* Mutant of subscribe_action: on_completed() is never added.
subscribe_actionNoCompleted(self, observer) ==
    accept_observable(self, observer).calls

\* Mutant of subscribe_action: on_completed() is added for every kind.
subscribe_actionAlwaysCompleted(self, observer) ==
    accept_observable(self, observer).calls
        \o CallMethod(observer, "on_completed", <<>>).calls

\* Mutant of subscribe_action: the notification is dispatched twice.
subscribe_actionTwice(self, observer) ==
    accept_observable(self, observer).calls
        \o accept_observable(self, observer).calls
        \o (IF self.kind = "N"
            THEN CallMethod(observer, "on_completed", <<>>).calls
            ELSE <<>>)

\* def action(scheduler, state), lines 50-53: the calls the scheduled unit
\* of work makes on the observer
subscribe_action(self, observer) ==
    LET dispatched == accept_observable(self, observer).calls
    IN  IF self.kind = "N"
        THEN dispatched \o CallMethod(observer, "on_completed", <<>>).calls
        ELSE dispatched

\* the schedulers a caller may pass
ImmediateScheduler == [type |-> "ImmediateScheduler"]
DeferringScheduler == [type |-> "DeferringScheduler"]

\* scheduler = scheduler or ImmediateScheduler()
SchedulerOrImmediate(scheduler) ==
    IF scheduler = None THEN ImmediateScheduler ELSE scheduler

\* scheduler.schedule(action): the immediate scheduler runs the unit before
\* schedule() returns; a deferring scheduler queues it and returns its handle
schedule(scheduler, self, observer) ==
    IF scheduler = ImmediateScheduler
    THEN [observer |-> observer, status |-> "ran", disposed |-> FALSE,
          cancelled |-> FALSE, calls |-> subscribe_action(self, observer)]
    ELSE [observer |-> observer, status |-> "scheduled", disposed |-> FALSE,
          cancelled |-> FALSE, calls |-> <<>>]

\* Mutant of subscribe: the dispatch of line 51 sits in subscribe itself, and
\* the unit is scheduled as well.
subscribeDispatchesItself(scheduler, self, observer) ==
    [schedule(scheduler, self, observer) EXCEPT
        !.calls = accept_observable(self, observer).calls \o @]

\* def subscribe(observer), lines 49-55: return scheduler.schedule(action)
subscribe(scheduler, self, observer) ==
    schedule(scheduler, self, observer)

\* ---- the operations made on the notification

\* handler form: notification.accept(on_next, on_error, on_completed), the
\* error and completion handlers optional
AcceptHandlers ==
    /\ \E on_error \in {Function("on_error"), None},
          on_completed \in {Function("on_completed"), None} :
          LET on_next == Function("on_next")
              out == accept(notification, on_next, on_error, on_completed)
          IN  last' = [op |-> "accept",
                       args |-> <<on_next, on_error, on_completed>>,
                       calls |-> out.calls, result |-> out.result]
    /\ UNCHANGED <<notification, observable, subs, dvars, fvars>>

\* observer form: notification.accept(observer)
AcceptObserver ==
    /\ \E o \in Observers :
          LET out == accept(notification, Observer(o), None, None)
          IN  last' = [op |-> "accept",
                       args |-> <<Observer(o), None, None>>,
                       calls |-> out.calls, result |-> out.result]
    /\ UNCHANGED <<notification, observable, subs, dvars, fvars>>

\* obj.name: the attribute's value, or AttributeError when the instance has
\* no such attribute
GetAttr(obj, name) ==
    IF name \in DOMAIN obj
    THEN [value |-> obj[name]]
    ELSE [raised |-> "AttributeError"]

\* notification.has_value is read
ReadHasValue ==
    /\ last' = [op |-> "has_value", result |-> GetAttr(notification, "has_value")]
    /\ UNCHANGED <<notification, observable, subs, dvars, fvars>>

\* notification.equals(other), other a notification or None
Equals ==
    /\ \E other \in Notifications \cup {None} :
          last' = [op |-> "equals", other |-> other,
                   result |-> equals(notification, other)]
    /\ UNCHANGED <<notification, observable, subs, dvars, fvars>>

\* notification.to_observable(scheduler), lines 46-56
to_observable ==
    /\ observable = None
    /\ \E scheduler \in {None, ImmediateScheduler, DeferringScheduler} :
          observable' = [type |-> "AnonymousObservable",
                         scheduler |-> SchedulerOrImmediate(scheduler)]
    /\ UNCHANGED <<notification, last, subs, dvars, fvars>>

\* observable.subscribe(observer)
Subscribe ==
    /\ observable # None
    /\ Len(subs) < MaxSubs
    /\ \E o \in Observers :
          subs' = Append(subs,
                         subscribe(observable.scheduler, notification, Observer(o)))
    /\ UNCHANGED <<notification, last, observable, dvars, fvars>>

\* the deferring scheduler runs a unit of work that was not cancelled
RunScheduled ==
    /\ \E i \in 1..Len(subs) :
          /\ subs[i].status = "scheduled"
          /\ ~subs[i].disposed
          /\ subs' = [subs EXCEPT
                ![i].status = "ran",
                ![i].calls = @ \o subscribe_action(notification, subs[i].observer)]
    /\ UNCHANGED <<notification, last, observable, dvars, fvars>>

\* the handle that subscribe returned is disposed
DisposeHandle ==
    /\ \E i \in 1..Len(subs) :
          /\ ~subs[i].disposed
          /\ subs' = [subs EXCEPT
                ![i].disposed = TRUE,
                ![i].cancelled = (subs[i].status = "scheduled")]
    /\ UNCHANGED <<notification, last, observable, dvars, fvars>>

\* SpecNotification makes no use of the Disposable
InitDisposableIdle ==
    /\ create("ok")
    /\ callers = 1
    /\ pc = [t \in Threads |-> "idle"]
    /\ depth = [t \in Threads |-> 0]
    /\ history = [t \in Threads |-> <<>>]
    /\ entered = 0
    /\ completed = 0
    /\ failed = 0
    /\ late = [t \in Threads |-> FALSE]

\* no observer of a notifier is in use
InitNotifierIdle ==
    /\ events = <<>>
    /\ handled = <<>>
    /\ replayed = <<>>

InitNotification ==
    /\ notification \in Notifications
    /\ last = [op |-> "none"]
    /\ observable = None
    /\ subs = <<>>
    /\ InitNotifierIdle
    /\ InitDisposableIdle

\* the operations that only read the notification: dispatch, equality,
\* attributes
NextNotification ==
    \/ AcceptHandlers
    \/ AcceptObserver
    \/ Equals
    \/ ReadHasValue

SpecNotification == InitNotification /\ [][NextNotification]_vars

\* the replay of the notification as an observable; a notification is never
\* modified, so the operations above are left out of these behaviours
NextReplay ==
    \/ to_observable
    \/ Subscribe
    \/ RunScheduled
    \/ DisposeHandle

SpecReplay == InitNotification /\ [][NextReplay]_vars

\* =================================================================
\* observable_from_notifier
\* =================================================================

\* a live event: the observer method that is called and its arguments
LiveEvent(name, args) == [name |-> name, args |-> args]

LiveEvents ==
    {LiveEvent("on_next", <<v>>) : v \in Payloads}
        \cup {LiveEvent("on_error", <<e>>) : e \in Payloads}
        \cup {LiveEvent("on_completed", <<>>)}

\* def _on_next(value): return handler(ON(value)) -- what handler is called with
from_notifier_on_next(value) == <<ON(value)>>

\* Mutant of from_notifier_on_error: the error is wrapped as a value.
from_notifier_on_errorAsValue(ex) == <<ON(ex)>>

\* def _on_error(ex): return handler(OE(ex))
from_notifier_on_error(ex) == <<OE(ex)>>

\* def _on_completed(): return handler(OC())
from_notifier_on_completed == <<OC>>

\* the object built at line 76 from the three callbacks: each observer
\* method is the callback at its position
observable_from_notifier(event) ==
    CASE event.name = "on_next" -> from_notifier_on_next(event.args[1])
      [] event.name = "on_error" -> from_notifier_on_error(event.args[1])
      [] event.name = "on_completed" -> from_notifier_on_completed

\* a live event reaches the observer; the handler appends what it is given
Feed ==
    /\ Len(events) < MaxEvents
    /\ \E event \in LiveEvents :
          /\ events' = Append(events, event)
          /\ handled' = handled \o observable_from_notifier(event)
    /\ UNCHANGED <<notification, last, observable, subs, replayed, dvars>>

\* the next notification of the list is replayed on the recording observer
\* with observer-form accept
Replay ==
    /\ Len(replayed) < Len(handled)
    /\ replayed' = replayed \o
          accept(handled[Len(replayed) + 1], Observer(1), None, None).calls
    /\ UNCHANGED <<notification, last, observable, subs, events, handled, dvars>>

InitNotifier ==
    /\ notification = OC
    /\ last = [op |-> "none"]
    /\ observable = None
    /\ subs = <<>>
    /\ InitNotifierIdle
    /\ InitDisposableIdle

NextNotifier ==
    \/ Feed
    \/ Replay

SpecNotifier == InitNotifier /\ [][NextNotifier]_vars

\* -----------------------------------------------------------------
\* Claims about Notification
\* -----------------------------------------------------------------

\* the last operation was a handler-form accept with all three handlers
HandlerFormAll ==
    /\ last.op = "accept"
    /\ last.args[1].type = "function"
    /\ last.args[2] # None
    /\ last.args[3] # None

\* the last operation was an observer-form accept
ObserverForm ==
    /\ last.op = "accept"
    /\ last.args[1].type = "observer"

\* one call of callee with args, as it is recorded
CallOf(callee, args) == [target |-> callee, args |-> args]

\* C5: handler-form accept of Error(e) with all three handlers calls the
\* error handler once with e, calls no other handler, and returns what the
\* error handler returned.
C5_ErrorHandlerForm ==
    (HandlerFormAll /\ notification.kind = "E") =>
        /\ last.calls = <<CallOf(last.args[2], <<notification.exception>>)>>
        /\ last.result = Returned(last.args[2], <<notification.exception>>)

\* C6: handler-form accept of Value(v) with all three handlers calls the
\* value handler once with v and returns its result; of Completion, it calls
\* the completion handler once with no argument and returns its result; no
\* other handler is called.
C6_ValueCompletionHandlerForm ==
    /\ (HandlerFormAll /\ notification.kind = "N") =>
          /\ last.calls = <<CallOf(last.args[1], <<notification.value>>)>>
          /\ last.result = Returned(last.args[1], <<notification.value>>)
    /\ (HandlerFormAll /\ notification.kind = "C") =>
          /\ last.calls = <<CallOf(last.args[3], <<>>)>>
          /\ last.result = Returned(last.args[3], <<>>)

\* C6 witness: a Completion was dispatched to three handlers.
C6_Witness ==
    /\ HandlerFormAll
    /\ notification.kind = "C"
    /\ Len(last.calls) = 1

\* the observer call that corresponds to notification n
MatchingCall(n, o) ==
    CASE n.kind = "N" -> CallOf(Method(o, "on_next"), <<n.value>>)
      [] n.kind = "E" -> CallOf(Method(o, "on_error"), <<n.exception>>)
      [] n.kind = "C" -> CallOf(Method(o, "on_completed"), <<>>)

\* C7: observer-form accept makes exactly one call on the observer, the one
\* that corresponds to the variant: on_next(v), on_error(e) or on_completed().
C7_ObserverForm ==
    ObserverForm =>
        last.calls = <<MatchingCall(notification, last.args[1].id)>>

\* C7 witness: an Error was dispatched to an observer.
C7_Witness ==
    /\ ObserverForm
    /\ notification.kind = "E"
    /\ Len(last.calls) = 1

\* the observable was made with the default, immediate scheduler
Immediate ==
    /\ observable # None
    /\ observable.scheduler = ImmediateScheduler

\* C8: every subscription to Value(v).to_observable() with the immediate
\* scheduler has made exactly the calls on_next(v), on_completed() on its
\* observer, in that order.
C8_ValueReplay ==
    (Immediate /\ notification.kind = "N") =>
        \A i \in 1..Len(subs) :
            subs[i].calls =
                <<CallOf(Method(subs[i].observer.id, "on_next"), <<notification.value>>),
                  CallOf(Method(subs[i].observer.id, "on_completed"), <<>>)>>

\* C8 witness: an observer is subscribed to the immediate replay of a Value.
C8_Witness ==
    /\ Immediate
    /\ notification.kind = "N"
    /\ Len(subs) >= 1

\* C9: a subscription to the replay of Error(e) or of Completion receives
\* exactly one call, on_error(e) or on_completed(), once its unit of work has
\* run, and nothing before; with the immediate scheduler the unit has run
\* when subscribe returns.
C9_TerminalReplay ==
    notification.kind \in {"E", "C"} =>
        \A i \in 1..Len(subs) :
            /\ subs[i].status = "ran" =>
                  subs[i].calls = <<MatchingCall(notification, subs[i].observer.id)>>
            /\ subs[i].status # "ran" => subs[i].calls = <<>>
            /\ Immediate => subs[i].status = "ran"

\* C9 witness: an observer is subscribed to the immediate replay of an Error.
C9_Witness ==
    /\ Immediate
    /\ notification.kind = "E"
    /\ Len(subs) >= 1
    /\ subs[1].status = "ran"

\* C10: with a deferring scheduler, a subscription whose handle was disposed
\* before its unit of work started has received no call, and its unit never
\* runs.
C10_CancelledReplay ==
    \A i \in 1..Len(subs) :
        subs[i].cancelled =>
            /\ subs[i].calls = <<>>
            /\ subs[i].status = "scheduled"

\* C10 witness: a handle was disposed before its unit ran, while another
\* subscription's unit has run.
C10_Witness ==
    /\ Len(subs) >= 2
    /\ subs[1].cancelled
    /\ subs[2].status = "ran"
    /\ notification.kind = "N"

\* -----------------------------------------------------------------
\* Claims about observable_from_notifier and equals
\* -----------------------------------------------------------------

\* the notification that stands for a live event
Materialized(event) ==
    CASE event.name = "on_next" -> ON(event.args[1])
      [] event.name = "on_error" -> OE(event.args[1])
      [] event.name = "on_completed" -> OC

WellFormed(evs) ==
    \A i \in 1..Len(evs) : i < Len(evs) => evs[i].name = "on_next"

C14_StructuralEquals ==
    (last.op = "equals" /\ last.other # None) =>
        (last.result <=> notification = last.other)

\* C13: handler-form accept of an Error without an error handler, or of a
\* Completion without a completion handler, raises to the caller and calls
\* none of the handlers that were supplied.
C13_MissingHandlerFails ==
    (/\ last.op = "accept"
     /\ last.args[1].type = "function"
     /\ \/ notification.kind = "E" /\ last.args[2] = None
        \/ notification.kind = "C" /\ last.args[3] = None) =>
        /\ "raised" \in DOMAIN last.result
        /\ last.calls = <<>>

\* C13 witness: a Completion was dispatched with a value and an error
\* handler but no completion handler.
C13_Witness ==
    /\ last.op = "accept"
    /\ last.args[1].type = "function"
    /\ notification.kind = "C"
    /\ last.args[2] # None
    /\ last.args[3] = None

\* C15: reading has_value of any notification gives a boolean, true for a
\* Value and false for an Error and for a Completion.
C15_HasValueDefined ==
    last.op = "has_value" =>
        last.result = [value |-> (notification.kind = "N")]

\* -----------------------------------------------------------------
\* Claims about Disposable: the flag, failures, empty()
\* -----------------------------------------------------------------

\* thread t is about to call the action, or inside it
Invoking(t) == pc[t] \in {"line13", "action"}

\* a dispose() call entered after is_disposed became true never calls the action
LateCallsSkipAction == \A t \in Threads : late[t] => ~Invoking(t)

\* C16: no step of any dispose() call, failing and re-entrant ones included,
\* changes is_disposed from true to false, and a dispose() call made once
\* is_disposed is true never invokes the action.
C16_DisposedMonotonic ==
    /\ [][is_disposed => is_disposed']_vars
    /\ []LateCallsSkipAction

\* C16 witness: inside the action, a nested dispose() call is entered after
\* another thread has set is_disposed.
C16_Witness ==
    \E t \in Threads :
        /\ is_disposed
        /\ late[t]
        /\ depth[t] = 2
        /\ pc[t] = "line12"

\* the top-level dispose() calls that ended with the action's exception
RaisedCalls ==
    {<<t, i>> \in Threads \X (1..MaxCalls) :
        i <= Len(history[t]) /\ history[t][i] = "raised"}

\* C17: every failure of the action ends the dispose() call it happened in
\* with that failure: at any time there are as many dispose() calls that
\* raised as action invocations that failed, so no call with a failed action
\* returns normally and no failure shows up in a later call.
C17_FailurePropagates ==
    Cardinality(RaisedCalls) = failed

\* C17 witness: the action failed in one call and returned in the next.
C17_Witness ==
    /\ callers = 1
    /\ failed = 1
    /\ history[1] = <<"raised", "returned">>

\* C18: no dispose() call on the handle of empty() fails; once a call has
\* returned the handle is disposed, and with calls made one after another the
\* later calls do not run the action again.
C18_EmptyDispose ==
    action = "noop" =>
        /\ failed = 0
        /\ \A t \in Threads : \A i \in 1..Len(history[t]) : history[t][i] = "returned"
        /\ (\E t \in Threads : history[t] # <<>>) => is_disposed
        /\ callers = 1 => entered <= 1

\* C18 witness: two dispose() calls on the handle of empty() have returned.
C18_Witness ==
    /\ action = "noop"
    /\ callers = 1
    /\ Len(history[1]) >= 2
    /\ entered = 1

\* C20: is_disposed is true only if an invocation of the action has returned
\* normally; so while no invocation has returned yet (the action is still
\* running, or every invocation so far failed) it is false.
C20_DisposedOnlyAfterSuccess ==
    is_disposed => completed >= 1

\* C20 witness: the action failed, no invocation has returned, and the
\* action is running again.
C20_Witness ==
    /\ failed >= 1
    /\ completed = 0
    /\ \E t \in Threads : pc[t] = "action"
    /\ ~is_disposed

\* -----------------------------------------------------------------
\* Claims about to_observable: laziness
\* -----------------------------------------------------------------

\* the calls one full replay of notification n makes on observer o
FullReplay(n, o) ==
    IF n.kind = "N"
    THEN <<MatchingCall(n, o), CallOf(Method(o, "on_completed"), <<>>)>>
    ELSE <<MatchingCall(n, o)>>

\* every subscription has received nothing before its unit of work ran, and
\* exactly one full replay on its own observer after
ReplayPerSubscription ==
    /\ observable = None => subs = <<>>
    /\ \A i \in 1..Len(subs) :
          subs[i].calls =
              IF subs[i].status = "ran"
              THEN FullReplay(notification, subs[i].observer.id)
              ELSE <<>>

\* a step schedules at most one unit, none when to_observable is called, and
\* changes at most one subscription; a subscription that was replayed is
\* never replayed again
ReplayStep ==
    /\ observable = None => subs' = <<>>
    /\ Len(subs) <= Len(subs')
    /\ Len(subs') <= Len(subs) + 1
    /\ Len(subs') = Len(subs) + 1 => \A i \in 1..Len(subs) : subs'[i] = subs[i]
    /\ \A i \in 1..Len(subs) :
          /\ subs'[i].observer = subs[i].observer
          /\ subs[i].status = "ran" =>
                subs'[i].status = "ran" /\ subs'[i].calls = subs[i].calls
          /\ subs'[i] # subs[i] =>
                \A j \in 1..Len(subs) : j # i => subs'[j] = subs[j]

\* C19: to_observable() alone calls no observer and schedules nothing; each
\* subscribe schedules one unit of work; every subscription, by the same or
\* by another observer, gets its own full replay, at most once, and only
\* after it was scheduled.
C19_LazyPerSubscription ==
    /\ []ReplayPerSubscription
    /\ [][ReplayStep]_vars

\* C19 witness: one observer subscribed twice with a deferring scheduler; the
\* second subscription was replayed while the first is still scheduled.
C19_Witness ==
    /\ Len(subs) = 2
    /\ subs[1].observer = subs[2].observer
    /\ subs[1].status = "scheduled"
    /\ subs[1].calls = <<>>
    /\ subs[2].status = "ran"
    /\ notification.kind = "N"

====
